---- MODULE Spec2Model ----
(***************************************************************************)
(* Model of the Lexer of final.py: a character-by-character scanner with   *)
(* a cursor (i, line, col), the token list built by tokenize(), and the    *)
(* lexical table (identifiers, constants).                                 *)
(*                                                                         *)
(* A character is a one-character string; the character U+0000 is written  *)
(* NUL.  A text (source, lexeme, token value) is a sequence of characters. *)
(* Every loop iteration of the scanners is one step of the model; pc is    *)
(* the position of the interpreter inside tokenize() and its scanners.     *)
(*                                                                         *)
(* History variables: calls counts the tokenize() calls made on the Lexer, *)
(* rets lists their outcomes, tstart is the offset at which the construct  *)
(* being scanned began and starts[k] the offset at which tokens[k] began.  *)
(***************************************************************************)
EXTENDS Integers, Sequences, FiniteSets, TLC

VARIABLES source, i, line, col, identifiers, constants,
          pc, tokens, s, tline, tcol, quote, is_float,
          calls, rets, starts, tstart

vars == <<source, i, line, col, identifiers, constants,
          pc, tokens, s, tline, tcol, quote, is_float,
          calls, rets, starts, tstart>>

(***************************************************************************)
(* Bounds of the model.                                                     *)
(***************************************************************************)
MaxOpLen == 3
MaxNumLen == 5
MaxStrLen == 4
MaxCmtLen == 4
MaxIdLen == 4
MaxGenLen == 3
MaxCalls == 2

(***************************************************************************)
(* Characters.                                                              *)
(***************************************************************************)
NUL == "NUL"
NL == "\n"
BSLASH == "\\"
SQUOTE == "'"
DQUOTE == "\""

Digits == {"0", "1", "2", "3", "4", "5", "6", "7", "8", "9"}
Letters == {"a", "b", "c", "d", "e", "f", "g", "h", "i", "j", "k", "l", "m",
            "n", "o", "p", "q", "r", "s", "t", "u", "v", "w", "x", "y", "z",
            "A", "B", "C", "D", "E", "F", "G", "H", "I", "J", "K", "L", "M",
            "N", "O", "P", "Q", "R", "S", "T", "U", "V", "W", "X", "Y", "Z"}
Spaces == {" ", "\t", "\n", "\r", "\f"}

isdigit(ch) == ch \in Digits
isalpha(ch) == ch \in Letters
isalnum_alphaOnly(ch) == ch \in Letters

isalnum(ch) == ch \in Letters \cup Digits
isspace(ch) == ch \in Spaces

(***************************************************************************)
(* Class tables of the Lexer.                                               *)
(***************************************************************************)
KEYWORDS == { <<"l", "e", "t">>, <<"c", "o", "n", "s", "t">>, <<"i", "f">>,
              <<"e", "l", "s", "e">>, <<"w", "h", "i", "l", "e">>,
              <<"f", "o", "r">>, <<"f", "n">>,
              <<"r", "e", "t", "u", "r", "n">>, <<"p", "r", "i", "n", "t">>,
              <<"t", "r", "u", "e">>, <<"f", "a", "l", "s", "e">>,
              <<"n", "u", "l", "l">> }

OPERATORS_shortFirst ==
    << <<"+", "+">>, <<"-", "-">>, <<"-", ">">>,
       <<"=", "=">>, <<"=", "=", "=">>, <<"!", "=">>, <<"<", "=">>, <<">", "=">>,
       <<"+", "=">>, <<"-", "=">>, <<"*", "=">>, <<"/", "=">>,
       <<"&", "&">>, <<"|", "|">>,
       <<"=">>, <<"+">>, <<"-">>, <<"*">>, <<"/">>, <<"%">>, <<"<">>, <<">">>,
       <<"!">> >>

OPERATORS ==
    << <<"+", "+">>, <<"-", "-">>, <<"-", ">">>,
       <<"=", "=", "=">>, <<"=", "=">>, <<"!", "=">>, <<"<", "=">>, <<">", "=">>,
       <<"+", "=">>, <<"-", "=">>, <<"*", "=">>, <<"/", "=">>,
       <<"&", "&">>, <<"|", "|">>,
       <<"=">>, <<"+">>, <<"-">>, <<"*">>, <<"/">>, <<"%">>, <<"<">>, <<">">>,
       <<"!">> >>

SEPARATORS == {"(", ")", "{", "}", "[", "]", ",", ";", ":", "."}

LINE_COMMENT == <<"/", "/">>
BLOCK_COMMENT_START == <<"/", "*">>
BLOCK_COMMENT_END == <<"*", "/">>

(***************************************************************************)
(* Cursor helpers.  A cursor is the record of (i, line, col).               *)
(***************************************************************************)
Cur == [i |-> i, line |-> line, col |-> col]

\* peek(k) evaluated at cursor c
peek(c, k) ==
    LET j == c.i + k
    IN  IF j < Len(source) THEN source[j + 1] ELSE NUL

advance_noIncOnNewline(c) ==
    IF peek(c, 0) = NL
    THEN [i |-> c.i, line |-> c.line + 1, col |-> 1]
    ELSE [i |-> c.i + 1, line |-> c.line, col |-> c.col + 1]

advance_noLineReset(c) ==
    [i |-> c.i + 1, line |-> c.line, col |-> c.col + 1]

\* the cursor after advance() at cursor c
advance(c) ==
    IF peek(c, 0) = NL
    THEN [i |-> c.i + 1, line |-> c.line + 1, col |-> 1]
    ELSE [i |-> c.i + 1, line |-> c.line, col |-> c.col + 1]

RECURSIVE advanceN(_, _)
advanceN(c, n) == IF n = 0 THEN c ELSE advanceN(advance(c), n - 1)

startswith(c, str) == \A k \in 1..Len(str) : peek(c, k - 1) = str[k]

token(ttype, value, l, c) ==
    [type |-> ttype, value |-> value, line |-> l, col |-> c]

SetCur(c) == /\ i' = c.i
             /\ line' = c.line
             /\ col' = c.col

Returned(toks) == [kind |-> "return", msg |-> "", ch |-> "", line |-> 0,
                   col |-> 0, tokens |-> toks]

LexerError(m, ch, l, c) == [kind |-> "raise", msg |-> m, ch |-> ch,
                            line |-> l, col |-> c, tokens |-> <<>>]

\* a raise leaves the Lexer's fields as they are and ends the call
Raise(e) == /\ pc' = "error"
            /\ rets' = Append(rets, e)
            /\ UNCHANGED <<source, i, line, col, identifiers, constants,
                           tokens, s, tline, tcol, quote, is_float, calls,
                           starts, tstart>>

\* tokens.append(tok), the lexeme of tok starting at offset off
Emit(tok, off) == /\ tokens' = Append(tokens, tok)
                  /\ starts' = Append(starts, off)

(***************************************************************************)
(* Source texts.                                                            *)
(***************************************************************************)
SeqsUpTo(A, n) == UNION { [1..k -> A] : k \in 0..n }

OpChars == {"=", "+", "-", ">", "!", "*", "/", "&"}
NumChars == {"1", ".", "e", "-"}
StrChars == {SQUOTE, DQUOTE, BSLASH, "n", NL}
CmtChars == {"/", "*", "a", NL, " "}
IdChars == {"i", "f", "_", "1", " "}
GenChars == {NUL, "a", " ", NL, "@", DQUOTE, "/", ";"}

Examples ==
    { <<"5", ".", "1", "e", "3">>, <<"1", "e", "-", "2">>,
      <<"2", ".", "0", "E", "+", "5">>, <<"2", ".", "x">>,
      <<SQUOTE, "H", "e", " ", "s", "a", "i", "d", " ", SQUOTE, SQUOTE, "h",
        "i", SQUOTE, SQUOTE, SQUOTE>>,
      <<DQUOTE, "a", BSLASH, "q", "b", DQUOTE>>,
      <<DQUOTE, "a", "b", "c">>,
      <<"t", "r", "u", "e", " ", "t", "r", "u", "e", "x">>,
      <<"a", "b", "c", "1", "2", "3">>,
      <<"T", "r", "u", "e", " ", "t", "r", "u", "e">>,
      <<"i", "+", "+", ")", " ", "{">>,
      <<"<", "=", "|", "|", "%", "<", "|">>,
      <<"l", "e", "t", " ", "n", "=", "1", ";">>,
      <<"/", "*", " ", "a", NL, "b">>,
      <<"/", "*", " ", "a", " ", "/", "*", " ", "b", " ", "*", "/", " ", "c">>,
      <<"a", "/", "*", NL, "*", "/", "/", "b", "/", "/", "*", NL, "c">>,
      <<"x", "=", DQUOTE, "/", "/", DQUOTE, ";", "/", "/", "c", NL, "y">>,
      <<DQUOTE, "/", "*", DQUOTE, "a", "*", "/">>,
      <<"/", "/", "a", NUL, "b", NL, "c">>,
      <<"/", "*", NUL, "*", "/", "c">>,
      <<"a", "/", "b", " ", "/", "=", "/", "/", NL, NL, "x">>,
      <<SQUOTE, "a", "/", "/", "b", NL, "/", "*", SQUOTE, "+", "c">> }

Sources ==
    SeqsUpTo(OpChars, MaxOpLen) \cup SeqsUpTo(NumChars, MaxNumLen)
      \cup SeqsUpTo(StrChars, MaxStrLen) \cup SeqsUpTo(CmtChars, MaxCmtLen)
      \cup SeqsUpTo(IdChars, MaxIdLen) \cup SeqsUpTo(GenChars, MaxGenLen)
      \cup Examples

(***************************************************************************)
(* Lexer.__init__                                                           *)
(***************************************************************************)
Init ==
    /\ source \in Sources
    /\ i = 0
    /\ line = 1
    /\ col = 1
    /\ identifiers = {}
    /\ constants = {}
    /\ pc = "idle"
    /\ tokens = <<>>
    /\ s = <<>>
    /\ tline = 0
    /\ tcol = 0
    /\ quote = ""
    /\ is_float = FALSE
    /\ calls = 0
    /\ rets = <<>>
    /\ starts = <<>>
    /\ tstart = 0

(***************************************************************************)
(* Pure parts of the scanners.                                              *)
(***************************************************************************)
Min(S) == CHOOSE m \in S : \A n \in S : m <= n

lex_operator_firstCharOnly(c) ==
    LET ms == { k \in 1..Len(OPERATORS) : peek(c, 0) = OPERATORS[k][1] }
    IN  IF ms = {}
        THEN [found |-> FALSE, tok |-> token("OP", <<>>, c.line, c.col),
              cur |-> c]
        ELSE LET op == OPERATORS[Min(ms)]
             IN  [found |-> TRUE, tok |-> token("OP", op, c.line, c.col),
                  cur |-> advanceN(c, Len(op))]

\* lex_operator at cursor c: the first candidate of OPERATORS, in list
\* order, that the input starts with
lex_operator(c) ==
    LET ms == { k \in 1..Len(OPERATORS) : startswith(c, OPERATORS[k]) }
    IN  IF ms = {}
        THEN [found |-> FALSE, tok |-> token("OP", <<>>, c.line, c.col),
              cur |-> c]
        ELSE LET op == OPERATORS[Min(ms)]
             IN  [found |-> TRUE, tok |-> token("OP", op, c.line, c.col),
                  cur |-> advanceN(c, Len(op))]

FracPart_noLookahead(c) == peek(c, 0) = "."

\* the condition of the fractional part of lex_number
FracPart(c) == peek(c, 0) = "." /\ isdigit(peek(c, 1))

\* the two conditions of the scientific-notation part of lex_number
SciPart(c) ==
    /\ peek(c, 0) \in {"e", "E"}
    /\ \/ isdigit(peek(c, 1))
       \/ peek(c, 1) \in {"+", "-"} /\ isdigit(peek(c, 2))

\* the cursor after 'e' and the optional sign
SciHead(c) ==
    LET c1 == advance(c)
    IN  IF peek(c1, 0) \in {"+", "-"} THEN advance(c1) ELSE c1

QuoteDoubled_anyQuote(c, q) == peek(c, 1) = q

\* the quote-doubling condition of lex_string, at a character equal to q
QuoteDoubled(c, q) == q = SQUOTE /\ peek(c, 1) = SQUOTE

escapes == [ch \in {"n", "t", BSLASH, SQUOTE, DQUOTE} |->
              CASE ch = "n" -> NL
                [] ch = "t" -> "\t"
                [] OTHER -> ch]

EscapeOut_dropBackslash(esc) ==
    IF esc \in DOMAIN escapes THEN <<escapes[esc]>> ELSE <<esc>>

\* what lex_string appends for a backslash followed by esc
EscapeOut(esc) ==
    IF esc \in DOMAIN escapes THEN <<escapes[esc]>> ELSE <<BSLASH, esc>>

StringErrorPos_current == <<line, col>>

\* the position lex_string reports for an unterminated string
StringErrorPos == <<tline, tcol>>

\* the position skip_comment_if_present reports for an unterminated comment
CommentErrorPos == <<line, col>>

AddIdentifier_always(str) == identifiers \cup {str}

\* the identifier set after lex_identifier_or_keyword has scanned str
AddIdentifier(str) ==
    IF str \in KEYWORDS THEN identifiers ELSE identifiers \cup {str}

\* the branch the dispatch loop of tokenize() takes at cursor c
Dispatch(c) ==
    LET ch == peek(c, 0)
    IN  IF isspace(ch) THEN "space"
        ELSE IF ch \in {SQUOTE, DQUOTE} THEN "string"
        ELSE IF startswith(c, LINE_COMMENT) THEN "line_comment"
        ELSE IF startswith(c, BLOCK_COMMENT_START) THEN "block_comment"
        ELSE IF isdigit(ch) THEN "number"
        ELSE IF isalpha(ch) \/ ch = "_" THEN "ident"
        ELSE IF ch \in SEPARATORS THEN "sep"
        ELSE IF lex_operator(c).found THEN "op"
        ELSE "error"

AtLoop(kind) == pc = "loop" /\ peek(Cur, 0) # NUL /\ Dispatch(Cur) = kind

Table == <<identifiers, constants>>
Locals == <<s, tline, tcol, quote, is_float, tstart>>
History == <<calls, rets>>

(***************************************************************************)
(* tokenize(): entry, dispatch loop, exit                                   *)
(***************************************************************************)
TokenizeCall ==
    /\ pc \in {"idle", "done", "error"}
    /\ calls < MaxCalls
    /\ calls' = calls + 1
    /\ tokens' = <<>>
    /\ starts' = <<>>
    /\ pc' = "loop"
    /\ UNCHANGED <<source, i, line, col, Table, Locals, rets>>

TokenizeReturn ==
    /\ pc = "loop"
    /\ peek(Cur, 0) = NUL
    /\ Emit(token("EOF", <<>>, line, col), i)
    /\ rets' = Append(rets, Returned(tokens'))
    /\ pc' = "done"
    /\ UNCHANGED <<source, i, line, col, Table, Locals, calls>>

SkipSpace ==
    /\ AtLoop("space")
    /\ SetCur(advance(Cur))
    /\ UNCHANGED <<source, Table, pc, tokens, starts, Locals, History>>

Separator ==
    /\ AtLoop("sep")
    /\ Emit(token("SEP", <<peek(Cur, 0)>>, line, col), i)
    /\ SetCur(advance(Cur))
    /\ UNCHANGED <<source, Table, pc, Locals, History>>

Operator ==
    /\ AtLoop("op")
    /\ Emit(lex_operator(Cur).tok, i)
    /\ SetCur(lex_operator(Cur).cur)
    /\ UNCHANGED <<source, Table, pc, Locals, History>>

Unexpected ==
    /\ AtLoop("error")
    /\ Raise(LexerError("Unexpected character", peek(Cur, 0), line, col))

(***************************************************************************)
(* lex_identifier_or_keyword                                                *)
(***************************************************************************)
IdentStart ==
    /\ AtLoop("ident")
    /\ tline' = line /\ tcol' = col /\ tstart' = i
    /\ s' = <<>>
    /\ pc' = "ident"
    /\ UNCHANGED <<source, i, line, col, Table, tokens, starts, quote,
                   is_float, History>>

IdentStep ==
    /\ pc = "ident"
    /\ isalnum(peek(Cur, 0)) \/ peek(Cur, 0) = "_"
    /\ s' = Append(s, peek(Cur, 0))
    /\ SetCur(advance(Cur))
    /\ UNCHANGED <<source, Table, pc, tokens, starts, tline, tcol, quote,
                   is_float, tstart, History>>

IdentEnd ==
    /\ pc = "ident"
    /\ ~(isalnum(peek(Cur, 0)) \/ peek(Cur, 0) = "_")
    /\ identifiers' = AddIdentifier(s)
    /\ Emit(token(IF s \in KEYWORDS THEN "KW" ELSE "IDENT", s, tline, tcol),
            tstart)
    /\ pc' = "loop"
    /\ UNCHANGED <<source, i, line, col, constants, Locals, History>>

(***************************************************************************)
(* lex_number                                                               *)
(***************************************************************************)
NumberStart ==
    /\ AtLoop("number")
    /\ tline' = line /\ tcol' = col /\ tstart' = i
    /\ s' = <<>>
    /\ is_float' = FALSE
    /\ pc' = "num_int"
    /\ UNCHANGED <<source, i, line, col, Table, tokens, starts, quote,
                   History>>

\* one iteration of any of the three digit loops
NumDigit ==
    /\ pc \in {"num_int", "num_frac", "num_exp"}
    /\ isdigit(peek(Cur, 0))
    /\ s' = Append(s, peek(Cur, 0))
    /\ SetCur(advance(Cur))
    /\ UNCHANGED <<source, Table, pc, tokens, starts, tline, tcol, quote,
                   is_float, tstart, History>>

\* end of the integer loop, then the test of the fractional part
NumIntEnd ==
    /\ pc = "num_int"
    /\ ~isdigit(peek(Cur, 0))
    /\ IF FracPart(Cur)
       THEN /\ is_float' = TRUE
            /\ s' = Append(s, peek(Cur, 0))
            /\ SetCur(advance(Cur))
            /\ pc' = "num_frac"
       ELSE /\ pc' = "num_sci"
            /\ UNCHANGED <<i, line, col, s, is_float>>
    /\ UNCHANGED <<source, Table, tokens, starts, tline, tcol, quote, tstart,
                   History>>

NumFracEnd ==
    /\ pc = "num_frac"
    /\ ~isdigit(peek(Cur, 0))
    /\ pc' = "num_sci"
    /\ UNCHANGED <<source, i, line, col, Table, tokens, starts, Locals,
                   History>>

\* the test of the scientific-notation part, 'e'/'E' and the optional sign
NumSci ==
    /\ pc = "num_sci"
    /\ SciPart(Cur)
    /\ is_float' = TRUE
    /\ s' = s \o SubSeq(source, i + 1, SciHead(Cur).i)
    /\ SetCur(SciHead(Cur))
    /\ pc' = "num_exp"
    /\ UNCHANGED <<source, Table, tokens, starts, tline, tcol, quote, tstart,
                   History>>

\* the end of lex_number: the table entry and the token
NumberEnd ==
    /\ \/ pc = "num_sci" /\ ~SciPart(Cur)
       \/ pc = "num_exp" /\ ~isdigit(peek(Cur, 0))
    /\ constants' = constants \cup {s}
    /\ Emit(token(IF is_float THEN "FLOAT" ELSE "INT", s, tline, tcol), tstart)
    /\ pc' = "loop"
    /\ UNCHANGED <<source, i, line, col, identifiers, Locals, History>>

(***************************************************************************)
(* lex_string                                                               *)
(***************************************************************************)
StringOpen ==
    /\ AtLoop("string")
    /\ quote' = peek(Cur, 0)
    /\ tline' = line /\ tcol' = col /\ tstart' = i
    /\ SetCur(advance(Cur))
    /\ s' = <<>>
    /\ pc' = "string"
    /\ UNCHANGED <<source, Table, tokens, starts, is_float, History>>

StringUnterminated ==
    /\ pc = "string"
    /\ peek(Cur, 0) = NUL
    /\ Raise(LexerError("Unterminated string", "", StringErrorPos[1],
                        StringErrorPos[2]))

StringDoubledQuote ==
    /\ pc = "string"
    /\ peek(Cur, 0) # NUL
    /\ peek(Cur, 0) = quote
    /\ QuoteDoubled(Cur, quote)
    /\ SetCur(advanceN(Cur, 2))
    /\ s' = Append(s, SQUOTE)
    /\ UNCHANGED <<source, Table, pc, tokens, starts, tline, tcol, quote,
                   is_float, tstart, History>>

StringClose ==
    /\ pc = "string"
    /\ peek(Cur, 0) # NUL
    /\ peek(Cur, 0) = quote
    /\ ~QuoteDoubled(Cur, quote)
    /\ SetCur(advance(Cur))
    /\ constants' = constants \cup {s}
    /\ Emit(token("STRING", s, tline, tcol), tstart)
    /\ pc' = "loop"
    /\ UNCHANGED <<source, identifiers, Locals, History>>

StringEscape ==
    /\ pc = "string"
    /\ peek(Cur, 0) \notin {NUL, quote}
    /\ peek(Cur, 0) = BSLASH
    /\ s' = s \o EscapeOut(peek(advance(Cur), 0))
    /\ SetCur(advanceN(Cur, 2))
    /\ UNCHANGED <<source, Table, pc, tokens, starts, tline, tcol, quote,
                   is_float, tstart, History>>

StringChar_stripsComment ==
    /\ pc = "string"
    /\ peek(Cur, 0) \notin {NUL, quote, BSLASH}
    /\ IF startswith(Cur, LINE_COMMENT)
       THEN /\ pc' = "line_comment"
            /\ UNCHANGED <<i, line, col, s>>
       ELSE /\ s' = Append(s, peek(Cur, 0))
            /\ SetCur(advance(Cur))
            /\ pc' = pc
    /\ UNCHANGED <<source, Table, tokens, starts, tline, tcol, quote,
                   is_float, tstart, History>>

StringChar ==
    /\ pc = "string"
    /\ peek(Cur, 0) \notin {NUL, quote, BSLASH}
    /\ s' = Append(s, peek(Cur, 0))
    /\ SetCur(advance(Cur))
    /\ UNCHANGED <<source, Table, pc, tokens, starts, tline, tcol, quote,
                   is_float, tstart, History>>

(***************************************************************************)
(* skip_comment_if_present                                                  *)
(***************************************************************************)
LineCommentStart ==
    /\ AtLoop("line_comment")
    /\ pc' = "line_comment"
    /\ tstart' = i
    /\ UNCHANGED <<source, i, line, col, Table, tokens, starts, s, tline, tcol,
                   quote, is_float, History>>

LineCommentStep ==
    /\ pc = "line_comment"
    /\ peek(Cur, 0) \notin {NL, NUL}
    /\ SetCur(advance(Cur))
    /\ UNCHANGED <<source, Table, pc, tokens, starts, Locals, History>>

LineCommentEnd ==
    /\ pc = "line_comment"
    /\ peek(Cur, 0) \in {NL, NUL}
    /\ pc' = "loop"
    /\ UNCHANGED <<source, i, line, col, Table, tokens, starts, Locals,
                   History>>

BlockCommentStart ==
    /\ AtLoop("block_comment")
    /\ SetCur(advanceN(Cur, 2))
    /\ pc' = "block_comment"
    /\ tstart' = i
    /\ UNCHANGED <<source, Table, tokens, starts, s, tline, tcol, quote,
                   is_float, History>>

BlockCommentUnterminated ==
    /\ pc = "block_comment"
    /\ peek(Cur, 0) = NUL
    /\ Raise(LexerError("Unterminated block comment", "", CommentErrorPos[1],
                        CommentErrorPos[2]))

BlockCommentEnd ==
    /\ pc = "block_comment"
    /\ peek(Cur, 0) # NUL
    /\ startswith(Cur, BLOCK_COMMENT_END)
    /\ SetCur(advanceN(Cur, 2))
    /\ pc' = "loop"
    /\ UNCHANGED <<source, Table, tokens, starts, Locals, History>>

BlockCommentStep ==
    /\ pc = "block_comment"
    /\ peek(Cur, 0) # NUL
    /\ ~startswith(Cur, BLOCK_COMMENT_END)
    /\ SetCur(advance(Cur))
    /\ UNCHANGED <<source, Table, pc, tokens, starts, Locals, History>>

Next ==
    \/ TokenizeCall
    \/ TokenizeReturn
    \/ SkipSpace
    \/ Separator
    \/ Operator
    \/ Unexpected
    \/ IdentStart
    \/ IdentStep
    \/ IdentEnd
    \/ NumberStart
    \/ NumDigit
    \/ NumIntEnd
    \/ NumFracEnd
    \/ NumSci
    \/ NumberEnd
    \/ StringOpen
    \/ StringUnterminated
    \/ StringDoubledQuote
    \/ StringClose
    \/ StringEscape
    \/ StringChar
    \/ LineCommentStart
    \/ LineCommentStep
    \/ LineCommentEnd
    \/ BlockCommentStart
    \/ BlockCommentUnterminated
    \/ BlockCommentEnd
    \/ BlockCommentStep

Spec == Init /\ [][Next]_vars
(***************************************************************************)
(* Positions computed from the source text alone: the 1-based line and     *)
(* column of the character at 0-based offset off.                           *)
(***************************************************************************)
Max(S) == CHOOSE m \in S : \A n \in S : n <= m

NewlinesBefore(off) == { k \in 1..off : k <= Len(source) /\ source[k] = NL }

LineAt(off) == 1 + Cardinality(NewlinesBefore(off))

ColAt(off) == off - Max(NewlinesBefore(off) \cup {0}) + 1

LastRet == rets[Len(rets)]

(***************************************************************************)
(* C1: tokenize() on a fresh Lexer returns only when the cursor offset     *)
(* equals len(source), also when the source contains the character NUL.    *)
(***************************************************************************)
C1_ReturnsOnlyAtEnd ==
    (pc = "done" /\ calls = 1) => i = Len(source)

(***************************************************************************)
(* C2: the error raised for an unterminated block comment carries the line *)
(* and column of the comment's opening.                                     *)
(***************************************************************************)
C2_CommentErrorAtOpening ==
    (pc = "error" /\ LastRet.msg = "Unterminated block comment")
        => /\ LastRet.line = LineAt(tstart)
           /\ LastRet.col = ColAt(tstart)

(***************************************************************************)
(* C3: a second tokenize() on the same Lexer, after a first one that       *)
(* returned, returns the same token sequence as the first.                  *)
(***************************************************************************)
C3_SecondCallSameTokens ==
    (Len(rets) = 2 /\ rets[1].kind = "return")
        => /\ rets[2].kind = "return"
           /\ rets[2].tokens = rets[1].tokens

(***************************************************************************)
(* C4: where lex_operator is invoked, the OP token emitted is the longest  *)
(* element of OPERATORS that is a prefix of the remaining input and        *)
(* exactly its length is consumed; when no element is a prefix the cursor  *)
(* is unmoved and no token is emitted.                                      *)
(***************************************************************************)
PrefixOps(c) ==
    { OPERATORS[k] : k \in { n \in DOMAIN OPERATORS :
                               startswith(c, OPERATORS[n]) } }

LongestOp(c) ==
    CHOOSE op \in PrefixOps(c) : \A o \in PrefixOps(c) : Len(o) <= Len(op)

OperatorInvoked ==
    pc = "loop" /\ peek(Cur, 0) # NUL /\ Dispatch(Cur) \in {"op", "error"}

C4_OperatorLongestMatch ==
    [][ OperatorInvoked =>
          IF PrefixOps(Cur) = {}
          THEN /\ <<i, line, col>>' = <<i, line, col>>
               /\ tokens' = tokens
          ELSE /\ tokens' = Append(tokens,
                              token("OP", LongestOp(Cur), line, col))
               /\ i' = i + Len(LongestOp(Cur)) ]_vars

C4_Witness ==
    /\ pc = "done"
    /\ Len(tokens) = 2
    /\ tokens[1] = token("OP", <<"=", "=", "=">>, 1, 1)

(***************************************************************************)
(* C5: the lexeme of every INT or FLOAT token is the source text verbatim  *)
(* and is the longest prefix of the input at its start that matches        *)
(* digits+ ('.' digits+)? ([eE] [+-]? digits+)?; the token is INT iff      *)
(* neither optional part was consumed.  '2.x' yields INT 2, SEP '.',       *)
(* IDENT x; '1e' yields INT 1, IDENT e; '1e-2' and '5.1e3' one FLOAT each. *)
(***************************************************************************)
AllDigits(t) == \A k \in DOMAIN t : isdigit(t[k])

IsFracText(t) == Len(t) >= 2 /\ t[1] = "." /\ AllDigits(Tail(t))

IsExpText(t) ==
    /\ Len(t) >= 2
    /\ t[1] \in {"e", "E"}
    /\ \/ AllDigits(Tail(t))
       \/ /\ Len(t) >= 3
          /\ t[2] \in {"+", "-"}
          /\ AllDigits(Tail(Tail(t)))

IsNumberText(t) ==
    \E a \in 1..Len(t) : \E b \in a..Len(t) :
        /\ AllDigits(SubSeq(t, 1, a))
        /\ b = a \/ IsFracText(SubSeq(t, a + 1, b))
        /\ b = Len(t) \/ IsExpText(SubSeq(t, b + 1, Len(t)))

TokenTypes == [k \in DOMAIN tokens |-> tokens[k].type]
TokenValues == [k \in DOMAIN tokens |-> tokens[k].value]

FirstCallDone == pc = "done" /\ calls = 1

C5_NumberLongestMatch ==
    /\ \A k \in DOMAIN tokens :
         tokens[k].type \in {"INT", "FLOAT"} =>
           LET v == tokens[k].value
               rest == Len(source) - starts[k]
           IN  /\ Len(v) <= rest
               /\ v = SubSeq(source, starts[k] + 1, starts[k] + Len(v))
               /\ IsNumberText(v)
               /\ \A m \in (Len(v) + 1)..rest :
                    ~IsNumberText(SubSeq(source, starts[k] + 1, starts[k] + m))
               /\ tokens[k].type = "INT" <=> AllDigits(v)
    /\ (FirstCallDone /\ source = <<"2", ".", "x">>) =>
         /\ TokenTypes = <<"INT", "SEP", "IDENT", "EOF">>
         /\ TokenValues = << <<"2">>, <<".">>, <<"x">>, <<>> >>
    /\ (FirstCallDone /\ source = <<"1", "e">>) =>
         /\ TokenTypes = <<"INT", "IDENT", "EOF">>
         /\ TokenValues = << <<"1">>, <<"e">>, <<>> >>
    /\ (FirstCallDone /\ source = <<"1", "e", "-", "2">>) =>
         /\ TokenTypes = <<"FLOAT", "EOF">>
         /\ TokenValues = << <<"1", "e", "-", "2">>, <<>> >>
    /\ (FirstCallDone /\ source = <<"5", ".", "1", "e", "3">>) =>
         /\ TokenTypes = <<"FLOAT", "EOF">>
         /\ TokenValues = << <<"5", ".", "1", "e", "3">>, <<>> >>

C5_Witness ==
    /\ FirstCallDone
    /\ Len(tokens) = 4
    /\ tokens[1].type = "FLOAT"
    /\ tokens[1].value = <<"1", ".", "1">>
    /\ tokens[2] = token("SEP", <<".">>, 1, 4)
    /\ tokens[3] = token("IDENT", <<"e">>, 1, 5)

(***************************************************************************)
(* C6: quote doubling applies to single-quoted strings only.  At a quote   *)
(* character equal to the opening quote, a single-quoted literal followed  *)
(* by another single quote appends one ' and stays in the literal; in      *)
(* every other case the literal ends there.  'He said ''hi''' decodes to   *)
(* He said 'hi'; two adjacent double quotes end one string and begin       *)
(* another.                                                                 *)
(***************************************************************************)
HeSaidSource ==
    <<SQUOTE, "H", "e", " ", "s", "a", "i", "d", " ", SQUOTE, SQUOTE, "h",
      "i", SQUOTE, SQUOTE, SQUOTE>>

HeSaidValue ==
    <<"H", "e", " ", "s", "a", "i", "d", " ", SQUOTE, "h", "i", SQUOTE>>

AtOwnQuote == pc = "string" /\ i < Len(source) /\ source[i + 1] = quote

C6_QuoteDoublingSingleOnly ==
    [][ /\ AtOwnQuote =>
            IF quote = SQUOTE /\ i + 1 < Len(source) /\ source[i + 2] = SQUOTE
            THEN /\ pc' = "string"
                 /\ s' = Append(s, SQUOTE)
                 /\ i' = i + 2
                 /\ tokens' = tokens
            ELSE /\ pc' = "loop"
                 /\ i' = i + 1
                 /\ tokens' = Append(tokens, token("STRING", s, tline, tcol))
        /\ (FirstCallDone' /\ source = HeSaidSource) =>
              TokenValues' = <<HeSaidValue, <<>> >>
        /\ (FirstCallDone' /\ source = <<DQUOTE, DQUOTE, DQUOTE, DQUOTE>>) =>
              /\ TokenTypes' = <<"STRING", "STRING", "EOF">>
              /\ starts' = <<0, 2, 4>> ]_vars

C6_Witness ==
    /\ FirstCallDone
    /\ source = <<SQUOTE, SQUOTE, SQUOTE, SQUOTE>>
    /\ Len(tokens) = 2
    /\ tokens[1].type = "STRING"
    /\ tokens[1].value = <<SQUOTE>>

(***************************************************************************)
(* C7: when end-of-input is reached inside a string literal, tokenize()    *)
(* raises 'Unterminated string' with the line and column of the opening    *)
(* quote and returns no token list; this includes a literal whose last     *)
(* character is a backslash and a literal that spans several lines.        *)
(***************************************************************************)
UnterminatedStringAt(off) ==
    LexerError("Unterminated string", "", LineAt(off), ColAt(off))

C7_UnterminatedStringAtOpening ==
    [][ /\ (pc = "string" /\ i >= Len(source)) =>
              /\ pc' = "error"
              /\ Len(rets') = Len(rets) + 1
              /\ rets'[Len(rets')] = UnterminatedStringAt(tstart)
              /\ source[tstart + 1] = quote
        /\ (pc' = "error" /\ Len(rets') = Len(rets) + 1
              /\ rets'[Len(rets')].msg = "Unterminated string") =>
              /\ rets'[Len(rets')] = UnterminatedStringAt(tstart)
              /\ source[tstart + 1] \in {SQUOTE, DQUOTE} ]_vars

C7_Witness ==
    /\ pc = "error"
    /\ LastRet.msg = "Unterminated string"
    /\ source[Len(source)] = BSLASH
    /\ i > Len(source)
    /\ line > LastRet.line

(***************************************************************************)
(* C8: in every token list, each token's (line, col) is the 1-based        *)
(* position of the first character of its lexeme (for STRING the opening   *)
(* quote), the positions strictly increase in (line, col) order and follow *)
(* source order; a returned list has exactly one EOF token, which is last, *)
(* has an empty value and carries the final cursor (line, col).            *)
(***************************************************************************)
PosBefore(t1, t2) ==
    \/ t1.line < t2.line
    \/ t1.line = t2.line /\ t1.col < t2.col

LexemeStartsAt(tok, off) ==
    /\ off < Len(source)
    /\ IF tok.type = "STRING"
       THEN source[off + 1] \in {SQUOTE, DQUOTE}
       ELSE /\ Len(tok.value) >= 1
            /\ off + Len(tok.value) <= Len(source)
            /\ tok.value = SubSeq(source, off + 1, off + Len(tok.value))

C8_TokenPositions ==
    /\ Len(starts) = Len(tokens)
    /\ \A k \in DOMAIN tokens :
         tokens[k].type # "EOF" =>
           /\ LexemeStartsAt(tokens[k], starts[k])
           /\ tokens[k].line = LineAt(starts[k])
           /\ tokens[k].col = ColAt(starts[k])
    /\ \A k \in 1..(Len(tokens) - 1) :
         /\ PosBefore(tokens[k], tokens[k + 1])
         /\ starts[k] < starts[k + 1]
         /\ tokens[k].type # "EOF"
    /\ pc = "done" =>
         /\ LastRet = Returned(tokens)
         /\ Len(tokens) >= 1
         /\ tokens[Len(tokens)] = token("EOF", <<>>, line, col)

C8_Witness ==
    /\ pc = "done"
    /\ Len(tokens) = 3
    /\ tokens[1].type = "STRING"
    /\ tokens[1].line = 1
    /\ tokens[2].line = 2
    /\ tokens[2].col = 2
    /\ tokens[3].line = 2

(***************************************************************************)
(* C9: after a successful tokenize() on a fresh Lexer the identifier set   *)
(* is exactly the set of values of the IDENT tokens returned, the constant *)
(* set is exactly the set of values of the INT, FLOAT and STRING tokens    *)
(* returned, and no keyword is in the identifier set.                       *)
(***************************************************************************)
ValuesOf(types) ==
    { tokens[k].value : k \in { n \in DOMAIN tokens : tokens[n].type \in types } }

C9_LexicalTableMatchesTokens ==
    FirstCallDone =>
        /\ identifiers = ValuesOf({"IDENT"})
        /\ constants = ValuesOf({"INT", "FLOAT", "STRING"})
        /\ identifiers \cap KEYWORDS = {}
        /\ \A k \in DOMAIN tokens :
             tokens[k].type = "KW" <=>
               (tokens[k].type \in {"KW", "IDENT"} /\ tokens[k].value \in KEYWORDS)

C9_Witness ==
    /\ FirstCallDone
    /\ TokenTypes = <<"KW", "IDENT", "OP", "INT", "SEP", "EOF">>
    /\ identifiers = {<<"n">>}
    /\ constants = {<<"1">>}

(***************************************************************************)
(* C10: inside a string literal a backslash and the character after it are *)
(* consumed together and the literal goes on: for n, t, backslash, single  *)
(* quote and double quote the one decoded character is appended, for any   *)
(* other character the backslash and the character are appended unchanged  *)
(* and no error is raised.  "a\qb" decodes to a\qb.                         *)
(***************************************************************************)
Decoded(ch) ==
    CASE ch = "n" -> <<NL>>
      [] ch = "t" -> <<"\t">>
      [] ch \in {BSLASH, SQUOTE, DQUOTE} -> <<ch>>
      [] OTHER -> <<BSLASH, ch>>

AtEscape == pc = "string" /\ i + 1 < Len(source) /\ source[i + 1] = BSLASH

C10_EscapePairConsumed ==
    [][ /\ AtEscape =>
            /\ pc' = "string"
            /\ i' = i + 2
            /\ s' = s \o Decoded(source[i + 2])
            /\ tokens' = tokens
            /\ rets' = rets
        /\ (FirstCallDone' /\ source = <<DQUOTE, "a", BSLASH, "q", "b", DQUOTE>>) =>
              TokenValues' = << <<"a", BSLASH, "q", "b">>, <<>> >> ]_vars

C10_Witness ==
    /\ FirstCallDone
    /\ source = <<DQUOTE, BSLASH, DQUOTE, DQUOTE>>
    /\ Len(tokens) = 2
    /\ tokens[1] = token("STRING", <<DQUOTE>>, 1, 1)

(***************************************************************************)
(* C11: when the dispatch loop is at a character that is not whitespace, a *)
(* quote, the start of a comment opener, a digit, a letter or underscore,  *)
(* a separator or the start of a matching operator candidate, tokenize()   *)
(* raises LexerError naming that character and its own line and column,    *)
(* with the cursor unmoved and no token list returned; and it raises       *)
(* 'Unexpected character' in no other case.                                 *)
(***************************************************************************)
NoRuleMatches(c) ==
    LET ch == peek(c, 0)
    IN  /\ ch \notin Spaces
        /\ ch \notin {SQUOTE, DQUOTE}
        /\ ~(ch = "/" /\ peek(c, 1) \in {"/", "*"})
        /\ ch \notin Digits \cup Letters \cup {"_"}
        /\ ch \notin SEPARATORS
        /\ PrefixOps(c) = {}

RawBody == SubSeq(source, tstart + 2, i)

PlainText(t) == \A k \in DOMAIN t : t[k] \notin {BSLASH, SQUOTE, DQUOTE, NUL}

SlashSlashSource ==
    <<"x", "=", DQUOTE, "/", "/", DQUOTE, ";", "/", "/", "c", NL, "y">>

C12_NoCommentInsideString ==
    [][ /\ (pc = "string" /\ i < Len(source) /\ source[i + 1] \in {"/", "*"}) =>
              /\ pc' = "string"
              /\ s' = Append(s, source[i + 1])
              /\ i' = i + 1
        /\ pc = "string" => pc' \in {"string", "loop", "error"}
        /\ (pc = "string" /\ pc' = "loop") =>
              /\ source[i + 1] = quote
              /\ i' = i + 1
              /\ tokens' = Append(tokens, token("STRING", s, tline, tcol))
              /\ PlainText(RawBody) => s = RawBody
        /\ (FirstCallDone' /\ source = SlashSlashSource) =>
              /\ TokenTypes' = <<"IDENT", "OP", "STRING", "SEP", "IDENT", "EOF">>
              /\ TokenValues' = << <<"x">>, <<"=">>, <<"/", "/">>, <<";">>,
                                   <<"y">>, <<>> >> ]_vars

C12_Witness ==
    /\ FirstCallDone
    /\ source = <<DQUOTE, "/", "*", DQUOTE, "a", "*", "/">>
    /\ TokenTypes = <<"STRING", "IDENT", "OP", "OP", "EOF">>
    /\ tokens[1].value = <<"/", "*">>
    /\ starts = <<0, 4, 5, 6, 7>>

(***************************************************************************)
(* C13: the lexeme of every IDENT or KW token is the maximal run of        *)
(* letters, digits and underscores starting at its first character, and    *)
(* the token is KW iff the whole run is one of the 12 keywords, compared   *)
(* case-sensitively: 'abc123' and 'truex' are one IDENT each, 'True' is    *)
(* IDENT and 'true' is KW.                                                  *)
(***************************************************************************)
IsWordChar(ch) == ch \in Letters \cup Digits \cup {"_"}

TrueText == <<"t", "r", "u", "e">>

C13_IdentifierMaximalRun ==
    /\ Cardinality(KEYWORDS) = 12
    /\ \A k \in DOMAIN tokens :
         tokens[k].type \in {"IDENT", "KW"} =>
           LET v == tokens[k].value
               end == starts[k] + Len(v)
           IN  /\ Len(v) >= 1
               /\ end <= Len(source)
               /\ v = SubSeq(source, starts[k] + 1, end)
               /\ \A n \in DOMAIN v : IsWordChar(v[n])
               /\ end < Len(source) => ~IsWordChar(source[end + 1])
               /\ tokens[k].type = "KW" <=> v \in KEYWORDS
    /\ (FirstCallDone /\ source = <<"a", "b", "c", "1", "2", "3">>) =>
         /\ TokenTypes = <<"IDENT", "EOF">>
         /\ TokenValues = << <<"a", "b", "c", "1", "2", "3">>, <<>> >>
    /\ (FirstCallDone /\ source = TrueText \o <<" ">> \o TrueText \o <<"x">>) =>
         /\ TokenTypes = <<"KW", "IDENT", "EOF">>
         /\ TokenValues = <<TrueText, TrueText \o <<"x">>, <<>> >>
    /\ (FirstCallDone /\ source = <<"T", "r", "u", "e", " ">> \o TrueText) =>
         /\ TokenTypes = <<"IDENT", "KW", "EOF">>
         /\ TokenValues = << <<"T", "r", "u", "e">>, TrueText, <<>> >>

C13_Witness ==
    /\ FirstCallDone
    /\ source = <<"T", "r", "u", "e", " ">> \o TrueText
    /\ tokens[1] = token("IDENT", <<"T", "r", "u", "e">>, 1, 1)
    /\ tokens[2] = token("KW", TrueText, 1, 6)

(***************************************************************************)
(* C14: in every reachable state of a scan the cursor offset satisfies     *)
(* 0 <= i <= len(source): advance() is never executed at end-of-input.     *)
(***************************************************************************)
C14_CursorWithinSource ==
    0 <= i /\ i <= Len(source)

(***************************************************************************)
(* C15: tokenize() terminates on every source text, by returning or by     *)
(* raising.  Every iteration of an inner scanning loop advances the cursor *)
(* by at least one character, every iteration of the dispatch loop raises  *)
(* or comes back with the cursor advanced, every non-EOF token has a       *)
(* lexeme of at least one source character, and every step of a call       *)
(* strictly decreases a natural-number measure of the work left.           *)
(***************************************************************************)
Scanners == {"ident", "num_int", "num_frac", "num_sci", "num_exp", "string",
             "line_comment", "block_comment"}

InCall == pc \in Scanners \cup {"loop"}

\* the rank of a control position among the positions at the same offset
Rank(p, fresh) ==
    CASE p = "loop" -> 5
      [] p \in Scanners /\ fresh -> 4
      [] p \in {"num_int", "num_frac"} -> 8
      [] p = "num_sci" -> 7
      [] p \in Scanners -> 6
      [] OTHER -> 0

Measure(p, off, start) ==
    10 * (Len(source) + 2 - off) + Rank(p, off = start)

C15_TerminationProgress ==
    [][ InCall =>
          /\ Measure(pc, i, tstart) > Measure(pc', i', tstart')
          /\ Measure(pc', i', tstart') >= 0
          /\ pc' \in Scanners \cup {"loop", "done", "error"}
          /\ (pc \in Scanners /\ pc' = pc) => i' > i
          /\ (pc = "loop" /\ pc' = "loop") => i' > i
          /\ (pc \in Scanners /\ pc' = "loop") => i' > tstart
          /\ (Len(tokens') > Len(tokens)
                /\ tokens'[Len(tokens')].type # "EOF") =>
                /\ starts'[Len(tokens')] < Len(source)
                /\ i' > starts'[Len(tokens')] ]_vars

C15_Witness ==
    /\ FirstCallDone
    /\ source = <<"a", "/", "*", NL, "*", "/", "/", "b", "/", "/", "*", NL, "c">>
    /\ TokenTypes = <<"IDENT", "OP", "IDENT", "IDENT", "EOF">>
    /\ i = 13

(***************************************************************************)
(* C16: a line comment ('//' outside a string) emits no token and discards *)
(* exactly the characters from the '//' up to but not including the next   *)
(* newline or end-of-input; '//' is never emitted as two '/' operators;    *)
(* the terminating newline is then consumed as whitespace and counted; a   *)
(* '/' followed by neither '/' nor '*' is emitted as OP '/' or '/='.       *)
(***************************************************************************)
\* the offset of the first newline at or after off, or len(source)
LineCommentStop(off) ==
    Min({ k \in off..(Len(source) - 1) : source[k + 1] = NL }
          \cup {Len(source)})

AtSlash == pc = "loop" /\ i < Len(source) /\ source[i + 1] = "/"

C16_LineCommentToNewline ==
    [][ /\ (AtSlash /\ peek(Cur, 1) = "/") =>
              /\ pc' = "line_comment"
              /\ tokens' = tokens
        /\ pc = "line_comment" =>
              /\ tokens' = tokens
              /\ pc' \in {"line_comment", "loop"}
              /\ pc' = "loop" =>
                    /\ i' = LineCommentStop(tstart)
                    /\ line' = LineAt(tstart)
        /\ (pc = "loop" /\ i < Len(source) /\ source[i + 1] = NL) =>
              /\ i' = i + 1
              /\ line' = line + 1
              /\ col' = 1
              /\ tokens' = tokens
        /\ (AtSlash /\ peek(Cur, 1) \notin {"/", "*"}) =>
              /\ tokens' = Append(tokens,
                              token("OP", IF peek(Cur, 1) = "="
                                          THEN <<"/", "=">> ELSE <<"/">>,
                                    line, col))
              /\ pc' = "loop" ]_vars

(***************************************************************************)
(* C17: block comments do not nest: after a '/*' outside a string the      *)
(* scanner discards everything through the first '*/' that begins at least *)
(* two characters after the opener's start, emits no token and resumes     *)
(* right after that '*/'; without such a '*/' the comment is unterminated. *)
(* '/* a /* b */ c' yields IDENT c then EOF; '/*/' alone is unterminated.  *)
(***************************************************************************)
\* the offsets of the closers that begin at least two characters after off
Closers(off) ==
    { k \in (off + 2)..(Len(source) - 2) :
        source[k + 1] = "*" /\ source[k + 2] = "/" }

NestedSource ==
    <<"/", "*", " ", "a", " ", "/", "*", " ", "b", " ", "*", "/", " ", "c">>

C17_BlockCommentFirstCloser ==
    [][ /\ (AtSlash /\ peek(Cur, 1) = "*") =>
              /\ pc' = "block_comment"
              /\ i' = i + 2
              /\ tokens' = tokens
        /\ pc = "block_comment" =>
              /\ tokens' = tokens
              /\ IF Closers(tstart) = {}
                 THEN pc' \in {"block_comment", "error"}
                 ELSE /\ pc' \in {"block_comment", "loop"}
                      /\ pc' = "loop" <=> i = Min(Closers(tstart))
                      /\ pc' = "loop" => i' = i + 2
        /\ (FirstCallDone' /\ source = NestedSource) =>
              /\ TokenTypes' = <<"IDENT", "EOF">>
              /\ TokenValues' = << <<"c">>, <<>> >>
        /\ (source = <<"/", "*", "/">> /\ pc = "block_comment") =>
              pc' \in {"block_comment", "error"} ]_vars

====
